---- MODULE Spec2Model ----
(***************************************************************************)
(* Model of the two mem0 hooks for Cursor:                                 *)
(*   .cursor/hooks/memory_retrieve.py  (search + auto-save before prompt)  *)
(*   .cursor/hooks/memory_save.py      (bulk save at session end)          *)
(* One run of one hook process is one behaviour.  The remote mem0 service, *)
(* stdin, the process environment and the .env files are inputs.           *)
(***************************************************************************)
EXTENDS Integers, Sequences, FiniteSets, TLC

VARIABLES
    hook,        \* which script runs: "retrieve" or "save"
    stdin,       \* the document on standard input
    environ,     \* os.environ: function from the set variables to their values
    fs,          \* CURSOR_HOOK_INPUT roots and the .env files on disk
    remote,      \* how the mem0 client behaves in this run
    pc,          \* position of the main thread
    input_data,  \* result of json.load(sys.stdin)
    user_prompt, \* retrieval hook: the selected prompt value
    config,      \* result of get_config()
    results,     \* retrieval hook: value returned by search_memories
    messages,    \* save hook: value returned by extract_messages
    thread,      \* background save thread: "none", "running", "finished"
    searches,    \* search calls started, in order
    adds,        \* add/save attempts started, in order
    stdout,      \* Hook Results printed, in order
    exitCode     \* process exit status, -1 while not decided

vars == <<hook, stdin, environ, fs, remote, pc, input_data, user_prompt,
          config, results, messages, thread, searches, adds, stdout,
          exitCode>>

(***************************************************************************)
(* Bounds of the explored inputs.                                          *)
(***************************************************************************)
MaxRecords == 2      \* records in one search response
MaxTranscript == 3   \* entries in one transcript
MaxLimit == 2        \* largest save-message limit tried by SpecExtract
MaxOver == 3         \* how far content lengths go beyond the truncation cut
MaxRoots == 2        \* workspace roots named by CURSOR_HOOK_INPUT
MaxLines == 2        \* lines in one .env file

(***************************************************************************)
(* Program constants.                                                      *)
(***************************************************************************)
MaxContentLen == 2000
Marker == <<".", ".", ".">>
Header == "## Relevant memories from previous conversations:\n"
DefaultResult == [action |-> "continue", has_context |-> FALSE, context |-> ""]

Min(a, b) == IF a < b THEN a ELSE b

(***************************************************************************)
(* .env parsing.  A line is a sequence of tokens: " " (white space), "#",  *)
(* "=" and words; the text of a token sequence is the tokens concatenated. *)
(***************************************************************************)
RECURSIVE Text(_)
Text(toks) == IF toks = <<>> THEN "" ELSE Head(toks) \o Text(Tail(toks))

RECURSIVE LStrip(_)
LStrip(toks) ==
    IF toks # <<>> /\ Head(toks) = " " THEN LStrip(Tail(toks)) ELSE toks

RECURSIVE RStrip(_)
RStrip(toks) ==
    IF toks # <<>> /\ toks[Len(toks)] = " "
    THEN RStrip(SubSeq(toks, 1, Len(toks) - 1)) ELSE toks

Strip(toks) == RStrip(LStrip(toks))

HasEq(toks) == \E i \in 1..Len(toks) : toks[i] = "="

FirstEq(toks) == CHOOSE i \in 1..Len(toks) :
                    toks[i] = "=" /\ \A j \in 1..(i - 1) : toks[j] # "="

\* line.strip(); if line and not line.startswith("#") and "=" in line
IsAssignment(line) ==
    LET l == Strip(line) IN l # <<>> /\ Head(l) # "#" /\ HasEq(l)

\* key, value = line.split("=", 1); key.strip(), value.strip()
SplitKey(line) ==
    LET l == Strip(line) IN Text(Strip(SubSeq(l, 1, FirstEq(l) - 1)))
SplitValue(line) ==
    LET l == Strip(line) IN Text(Strip(SubSeq(l, FirstEq(l) + 1, Len(l))))

\* os.environ.setdefault(key, value); putenv rejects the empty name
SetDefaultRaises(key) == key = ""
setdefault(env, key, value) ==
    IF key \in DOMAIN env THEN env
    ELSE [k \in DOMAIN env \cup {key} |->
             IF k \in DOMAIN env THEN env[k] ELSE value]

\* for line in f: ... ; result is the environment and whether a line raised
RECURSIVE ReadLines(_, _)
ReadLines(env, lines) ==
    IF lines = <<>> THEN [env |-> env, raised |-> FALSE]
    ELSE IF ~IsAssignment(Head(lines)) THEN ReadLines(env, Tail(lines))
    ELSE IF SetDefaultRaises(SplitKey(Head(lines)))
         THEN [env |-> env, raised |-> TRUE]
    ELSE ReadLines(setdefault(env, SplitKey(Head(lines)),
                              SplitValue(Head(lines))), Tail(lines))

\* for root in workspace_roots: if exists: read; break
RECURSIVE ReadRoots(_, _)
ReadRoots(env, roots) ==
    IF roots = <<>> THEN [env |-> env, raised |-> FALSE]
    ELSE IF Head(roots).exists THEN ReadLines(env, Head(roots).lines)
    ELSE ReadRoots(env, Tail(roots))

\* the try block; the bare except keeps whatever was set before the error
WorkspacePhase(env, f) ==
    IF f.hook_input_ok THEN ReadRoots(env, f.roots).env ELSE env

\* load_env_file(): workspace phase, then the current directory's .env,
\* whose errors are not caught
load_env_file(env, f) ==
    LET e1 == WorkspacePhase(env, f)
    IN  IF f.cwd.exists THEN ReadLines(e1, f.cwd.lines)
        ELSE [env |-> e1, raised |-> FALSE]

(***************************************************************************)
(* get_config().  Environment values are strings; int() and float() accept *)
(* the literals below and raise ValueError on any other text.              *)
(***************************************************************************)
environ_get(env, key, default) == IF key \in DOMAIN env THEN env[key] ELSE default

IntLiterals == ("-1" :> -1) @@ ("0" :> 0) @@ ("1" :> 1) @@ ("2" :> 2) @@ ("3" :> 3) @@
               ("5" :> 5) @@ ("10" :> 10)
int_raises(s) == s \notin DOMAIN IntLiterals
int(s) == IF int_raises(s) THEN 0 ELSE IntLiterals[s]

\* float() values in tenths
FloatLiterals == ("0.3" :> 3) @@ ("0.5" :> 5) @@ ("1" :> 10)
float_raises(s) == s \notin DOMAIN FloatLiterals
float(s) == IF float_raises(s) THEN 0 ELSE FloatLiterals[s]

lower(s) == CASE s = "TRUE" -> "true"
              [] s = "True" -> "true"
              [] s = "FALSE" -> "false"
              [] OTHER -> s

NoConfig == [api_key |-> "", user_id |-> "", top_k |-> 0, threshold |-> 0,
             auto_save |-> FALSE, save_messages |-> 0]

\* memory_retrieve.get_config
get_config_retrieve(env) ==
    [raised |-> int_raises(environ_get(env, "MEM0_TOP_K", "5"))
                \/ float_raises(environ_get(env, "MEM0_THRESHOLD", "0.3")),
     cfg |-> [api_key |-> environ_get(env, "MEM0_API_KEY", ""),
              user_id |-> environ_get(env, "MEM0_USER_ID", "cursor-user"),
              top_k |-> int(environ_get(env, "MEM0_TOP_K", "5")),
              threshold |-> float(environ_get(env, "MEM0_THRESHOLD", "0.3")),
              auto_save |-> lower(environ_get(env, "MEM0_AUTO_SAVE", "true"))
                            = "true",
              save_messages |-> 0]]

\* memory_save.get_config
get_config_save(env) ==
    [raised |-> int_raises(environ_get(env, "MEM0_SAVE_MESSAGES", "10")),
     cfg |-> [api_key |-> environ_get(env, "MEM0_API_KEY", ""),
              user_id |-> environ_get(env, "MEM0_USER_ID", "cursor-user"),
              top_k |-> 0, threshold |-> 0, auto_save |-> FALSE,
              save_messages |->
                  int(environ_get(env, "MEM0_SAVE_MESSAGES", "10"))]]

(***************************************************************************)
(* JSON values of the prompt and query fields: a tag and a text.           *)
(*   "absent"  the field is missing      "null"  JSON null                 *)
(*   "str"     a string (s is its text)  "num"   a non-zero number         *)
(***************************************************************************)
Absent == [t |-> "absent", s |-> ""]
Str(x) == [t |-> "str", s |-> x]
Num(x) == [t |-> "num", s |-> x]
Null == [t |-> "null", s |-> ""]

\* Python truth value
Truthy(v) == (v.t = "str" /\ v.s # "") \/ v.t = "num"

\* dict.get(field, "")
GetOrEmpty(v) == IF v.t = "absent" THEN Str("") ELSE v

\* a or b
Or(a, b) == IF Truthy(a) THEN a ELSE b

IsNonEmptyString(v) == v.t = "str" /\ v.s # ""

\* input_data.get("prompt", "") or input_data.get("query", "")
select_prompt(doc) == Or(GetOrEmpty(doc.prompt), GetOrEmpty(doc.query))

(***************************************************************************)
(* search_memories.  A remote search behaviour is                          *)
(*   kind "import_error"  the mem0 package is missing                      *)
(*        "raises"        MemoryClient() or client.search raised           *)
(*        "dict"          a mapping; rt is the type of its "results" field *)
(*                        ("absent", "list", "str", "null")                *)
(*        "list"          a plain list                                     *)
(*        "other"         any other value (None, a string, a number)       *)
(* recs are the elements of the list; an element with isdict FALSE is not  *)
(* a mapping.  The value returned is [t, recs] with t "list", "str" or     *)
(* "null".                                                                 *)
(***************************************************************************)
EmptyList == [t |-> "list", recs |-> <<>>]

\* search_memories returning the response itself when it is no list
search_memories_unchecked(resp) ==
    IF resp.kind = "dict"
        THEN [raised |-> FALSE,
              val |-> IF resp.rt = "absent" THEN EmptyList
                      ELSE [t |-> resp.rt, recs |-> resp.recs]]
    ELSE IF resp.kind = "list"
        THEN [raised |-> FALSE, val |-> [t |-> "list", recs |-> resp.recs]]
    ELSE IF resp.kind = "other"
        THEN [raised |-> FALSE, val |-> [t |-> "str", recs |-> <<>>]]
    ELSE [raised |-> FALSE, val |-> EmptyList]

search_memories(resp) ==
    IF resp.kind = "dict"
        THEN [raised |-> FALSE,
              val |-> IF resp.rt = "absent" THEN EmptyList
                      ELSE [t |-> resp.rt, recs |-> resp.recs]]
    ELSE IF resp.kind = "list"
        THEN [raised |-> FALSE, val |-> [t |-> "list", recs |-> resp.recs]]
    ELSE [raised |-> FALSE, val |-> EmptyList]

\* truth value of the value search_memories returned
ResultsTruthy(r) == (r.t = "list" /\ r.recs # <<>>) \/ r.t = "str"

(***************************************************************************)
(* format_memories                                                         *)
(***************************************************************************)
\* ", ".join(categories)
RECURSIVE JoinComma(_)
JoinComma(cats) ==
    IF cats = <<>> THEN ""
    ELSE IF Len(cats) = 1 THEN cats[1]
    ELSE cats[1] \o ", " \o JoinComma(Tail(cats))

\* BulletLine without the test for an empty categories list
BulletLine_always_prefix(r) ==
    "- [" \o JoinComma(r.categories) \o "] " \o r.memory

\* one bullet line
BulletLine(r) ==
    IF r.categories # <<>>
    THEN "- [" \o JoinComma(r.categories) \o "] " \o r.memory
    ELSE "- " \o r.memory

\* the loop over results: the lines appended to `memories`
RECURSIVE MemoryLines(_)
MemoryLines(recs) ==
    IF recs = <<>> THEN <<>>
    ELSE IF Head(recs).memory # ""
         THEN <<BulletLine(Head(recs))>> \o MemoryLines(Tail(recs))
    ELSE MemoryLines(Tail(recs))

\* "\n".join(memories)
RECURSIVE JoinNewline(_)
JoinNewline(lines) ==
    IF lines = <<>> THEN ""
    ELSE IF Len(lines) = 1 THEN lines[1]
    ELSE lines[1] \o "\n" \o JoinNewline(Tail(lines))

\* r.get on an element that is no mapping, or iteration over a string
format_raises(r) ==
    r.t = "str" \/ (r.t = "list" /\ \E i \in 1..Len(r.recs) : ~r.recs[i].isdict)

format_memories(r) ==
    IF MemoryLines(r.recs) = <<>> THEN ""
    ELSE Header \o JoinNewline(MemoryLines(r.recs))

(***************************************************************************)
(* extract_messages.  Text content is a sequence of characters.            *)
(* A transcript value is [t, l]: t "absent", "null", "list", or a value of *)
(* another type ("str": a non-empty string, "dict": a non-empty mapping).  *)
(* An entry is [isdict, role, content]; content is [t, s, parts] with t    *)
(* "absent", "null", "str", "num" or "list".  A part of a list content is  *)
(* [t, s] with t                                                           *)
(*   "str"       a plain string                                            *)
(*   "text"      {"type": "text", "text": s}                               *)
(*   "text_none" {"type": "text"} without a text field                     *)
(*   "text_bad"  {"type": "text", "text": null}                            *)
(*   "other"     a mapping of another type, or any other value             *)
(***************************************************************************)
\* truncate with the comparison off by one (>= in place of >)
truncate_from_limit(content) ==
    IF Len(content) >= MaxContentLen
    THEN SubSeq(content, 1, MaxContentLen) \o Marker
    ELSE content

\* content[:2000] + "..." when len(content) > 2000
truncate(content) ==
    IF Len(content) > MaxContentLen
    THEN SubSeq(content, 1, MaxContentLen) \o Marker
    ELSE content

\* the text_parts collected from a list content
RECURSIVE TextParts(_)
TextParts(parts) ==
    IF parts = <<>> THEN <<>>
    ELSE IF Head(parts).t \in {"str", "text"}
         THEN <<Head(parts).s>> \o TextParts(Tail(parts))
    ELSE IF Head(parts).t = "text_none"
         THEN << <<>> >> \o TextParts(Tail(parts))
    ELSE IF Head(parts).t = "text_bad"
         THEN << <<"None">> >> \o TextParts(Tail(parts))
    ELSE TextParts(Tail(parts))

\* " ".join(text_parts)
RECURSIVE JoinSpace(_)
JoinSpace(texts) ==
    IF texts = <<>> THEN <<>>
    ELSE IF Len(texts) = 1 THEN texts[1]
    ELSE texts[1] \o <<" ">> \o JoinSpace(Tail(texts))

\* str.join raises TypeError on an element that is not a string
JoinRaises(parts) == \E i \in 1..Len(parts) : parts[i].t = "text_bad"

\* the content after the isinstance(content, list) block
DerivedContent(c) ==
    IF c.t = "list" THEN [t |-> "str", s |-> JoinSpace(TextParts(c.parts))]
    ELSE IF c.t = "absent" THEN [t |-> "str", s |-> <<>>]
    ELSE [t |-> c.t, s |-> c.s]

\* if role and content and isinstance(content, str)
Usable(e) ==
    /\ Truthy(GetOrEmpty(e.role))
    /\ DerivedContent(e.content).t = "str"
    /\ DerivedContent(e.content).s # <<>>

Normalized(e) ==
    [role |-> e.role, content |-> truncate(DerivedContent(e.content).s)]

\* the loop over `recent`
RECURSIVE CollectMessages(_)
CollectMessages(recent) ==
    IF recent = <<>> THEN <<>>
    ELSE IF Usable(Head(recent))
         THEN <<Normalized(Head(recent))>> \o CollectMessages(Tail(recent))
    ELSE CollectMessages(Tail(recent))

\* transcript[-max_messages:]
TailSlice(l, n) ==
    IF n > 0 THEN SubSeq(l, Len(l) - Min(n, Len(l)) + 1, Len(l))
    ELSE IF n = 0 THEN l
    ELSE SubSeq(l, Min(-n, Len(l)) + 1, Len(l))

TranscriptTruthy(v) == (v.t = "list" /\ v.l # <<>>) \/ v.t \in {"str", "dict"}

\* input_data.get("transcript", []) or input_data.get("messages", [])
select_transcript(doc) ==
    IF TranscriptTruthy(doc.transcript) THEN doc.transcript
    ELSE IF doc.messages.t = "absent" THEN [t |-> "list", l |-> <<>>]
    ELSE doc.messages

\* slicing a mapping, msg.get on an entry that is no mapping, or the join
extract_raises(doc, max_messages) ==
    LET tr == select_transcript(doc)
    IN  /\ TranscriptTruthy(tr)
        /\ \/ tr.t \in {"str", "dict"}
           \/ LET recent == TailSlice(tr.l, max_messages)
              IN  \E i \in 1..Len(recent) :
                     \/ ~recent[i].isdict
                     \/ recent[i].content.t = "list"
                        /\ JoinRaises(recent[i].content.parts)

\* extract_messages with the unusable entries dropped before the tail slice
extract_messages_filter_first(doc, max_messages) ==
    LET tr == select_transcript(doc)
    IN  IF ~TranscriptTruthy(tr) THEN <<>>
        ELSE TailSlice(CollectMessages(tr.l), max_messages)

extract_messages(doc, max_messages) ==
    LET tr == select_transcript(doc)
    IN  IF ~TranscriptTruthy(tr) THEN <<>>
        ELSE CollectMessages(TailSlice(tr.l, max_messages))

\* save_memories: every exception is caught; the value is the bool returned
save_memories(outcome) == [raised |-> FALSE, val |-> outcome = "ok"]

(***************************************************************************)
(* Input values.                                                           *)
(***************************************************************************)
RECURSIVE SeqsUpTo(_, _)
SeqsUpTo(S, n) ==
    IF n = 0 THEN {<<>>}
    ELSE LET shorter == SeqsUpTo(S, n - 1)
         IN  shorter \cup {Append(q, x) : q \in {r \in shorter : Len(r) = n - 1},
                                          x \in S}

Chars(c, n) == [i \in 1..n |-> c]

NoFile == [exists |-> FALSE, lines |-> <<>>]
File(lines) == [exists |-> TRUE, lines |-> lines]
NoFiles == [hook_input_ok |-> TRUE, roots |-> <<>>, cwd |-> NoFile]

NoDoc == [kind |-> "none", prompt |-> Absent, query |-> Absent,
          transcript |-> [t |-> "absent", l |-> <<>>],
          messages |-> [t |-> "absent", l |-> <<>>]]
NotJson == [NoDoc EXCEPT !.kind = "notjson"]
NonObject == [NoDoc EXCEPT !.kind = "nonobject"]
PromptDoc(p, q) == [NoDoc EXCEPT !.kind = "object", !.prompt = p, !.query = q]
TranscriptDoc(t, m) ==
    [NoDoc EXCEPT !.kind = "object", !.transcript = t, !.messages = m]

AbsentT == [t |-> "absent", l |-> <<>>]
ListT(l) == [t |-> "list", l |-> l]
OtherT(t) == [t |-> t, l |-> <<>>]

TextC(s) == [t |-> "str", s |-> s, parts |-> <<>>]
OtherC(t) == [t |-> t, s |-> <<"7">>, parts |-> <<>>]
ListC(parts) == [t |-> "list", s |-> <<>>, parts |-> parts]
Entry(role, content) == [isdict |-> TRUE, role |-> role, content |-> content]
NonDictEntry == [isdict |-> FALSE, role |-> Absent, content |-> OtherC("absent")]

NoResponse == [kind |-> "none", rt |-> "absent", recs |-> <<>>]
Record(memory, categories) ==
    [isdict |-> TRUE, memory |-> memory, categories |-> categories]
NonDictRecord == [isdict |-> FALSE, memory |-> "", categories |-> <<>>]

\* responses that carry no list of records
PlainResponses ==
    {[kind |-> k, rt |-> "absent", recs |-> <<>>] :
        k \in {"import_error", "raises", "other", "dict"}}
    \cup {[kind |-> "dict", rt |-> t, recs |-> <<>>] : t \in {"null", "str"}}

ListResponses(Recs) ==
    {[kind |-> k, rt |-> "list", recs |-> l] :
        k \in {"dict", "list"}, l \in SeqsUpTo(Recs, MaxRecords)}

SmallRecords == {Record("m", <<"a">>), Record("", <<>>), NonDictRecord}
WellFormedRecords ==
    {Record(m, c) : m \in {"", "m", "n"}, c \in {<<>>, <<"a">>, <<"a", "b">>}}

SmallResponses == PlainResponses \cup ListResponses(SmallRecords)
RichResponses == ListResponses(WellFormedRecords)

AddOutcomes == {"ok", "raises", "hangs"}

(***************************************************************************)
(* The hook process.                                                       *)
(***************************************************************************)
\* print(json.dumps(...)) followed by the end of main or sys.exit(0)
Emit(result) ==
    /\ stdout' = Append(stdout, result)
    /\ exitCode' = 0
    /\ pc' = "exiting"

\* an exception that nothing catches: traceback, status 1
Crash ==
    /\ exitCode' = 1
    /\ pc' = "exiting"
    /\ UNCHANGED stdout

\* main: load_env_file()
LoadEnv ==
    /\ pc = "start"
    /\ LET r == load_env_file(environ, fs)
       IN  /\ environ' = r.env
           /\ IF r.raised THEN Crash
              ELSE pc' = "read_stdin" /\ UNCHANGED <<stdout, exitCode>>
    /\ UNCHANGED <<hook, stdin, fs, remote, input_data, user_prompt, config,
                   results, messages, thread, searches, adds>>

\* main: json.load(sys.stdin) and its except JSONDecodeError
ParseInput ==
    /\ pc = "read_stdin"
    /\ IF stdin.kind = "notjson"
       THEN Emit(DefaultResult) /\ UNCHANGED input_data
       ELSE /\ input_data' = stdin
            /\ pc' = IF hook = "retrieve" THEN "get_prompt" ELSE "get_config"
            /\ UNCHANGED <<stdout, exitCode>>
    /\ UNCHANGED <<hook, stdin, environ, fs, remote, user_prompt, config,
                   results, messages, thread, searches, adds>>

\* memory_retrieve.main: the prompt selection and its short circuit
GetPrompt ==
    /\ pc = "get_prompt"
    /\ IF input_data.kind # "object"
       THEN Crash /\ UNCHANGED user_prompt
       ELSE /\ user_prompt' = select_prompt(input_data)
            /\ IF ~Truthy(select_prompt(input_data))
               THEN Emit(DefaultResult)
               ELSE pc' = "get_config" /\ UNCHANGED <<stdout, exitCode>>
    /\ UNCHANGED <<hook, stdin, environ, fs, remote, input_data, config,
                   results, messages, thread, searches, adds>>

\* main: get_config() and the API key gate
GetConfig ==
    /\ pc = "get_config"
    /\ LET r == IF hook = "retrieve" THEN get_config_retrieve(environ)
                ELSE get_config_save(environ)
       IN  IF r.raised THEN Crash /\ UNCHANGED config
           ELSE /\ config' = r.cfg
                /\ IF r.cfg.api_key = ""
                   THEN Emit(DefaultResult)
                   ELSE /\ pc' = IF hook = "retrieve" THEN "search"
                                 ELSE "extract"
                        /\ UNCHANGED <<stdout, exitCode>>
    /\ UNCHANGED <<hook, stdin, environ, fs, remote, input_data, user_prompt,
                   results, messages, thread, searches, adds>>

\* search_memories: client.search is called
SearchCall ==
    /\ pc = "search"
    /\ searches' = Append(searches, [query |-> user_prompt,
                                     user_id |-> config.user_id,
                                     top_k |-> config.top_k,
                                     threshold |-> config.threshold])
    /\ pc' = "searching"
    /\ UNCHANGED <<hook, stdin, environ, fs, remote, input_data, user_prompt,
                   config, results, messages, thread, adds, stdout, exitCode>>

\* search_memories returns, whatever the remote service answered
SearchReturn(Responses) ==
    /\ pc = "searching"
    /\ \E resp \in Responses :
          /\ remote' = [remote EXCEPT !.search = resp]
          /\ IF search_memories(resp).raised
             THEN Crash /\ UNCHANGED results
             ELSE /\ results' = search_memories(resp).val
                  /\ pc' = "auto_save"
                  /\ UNCHANGED <<stdout, exitCode>>
    /\ UNCHANGED <<hook, stdin, environ, fs, input_data, user_prompt, config,
                   messages, thread, searches, adds>>

\* AutoSave without the test of config["auto_save"]
AutoSave_unconditional ==
    /\ pc = "auto_save"
    /\ \E o \in AddOutcomes :
          /\ remote' = [remote EXCEPT !.add = o]
          /\ thread' = "running"
          /\ adds' = Append(adds,
                [messages |-> <<[role |-> "user", content |-> user_prompt]>>,
                 user_id |-> config.user_id])
          /\ pc' = "joining"
    /\ UNCHANGED <<hook, stdin, environ, fs, input_data, user_prompt, config,
                   results, messages, searches, stdout, exitCode>>

\* main: if config["auto_save"]: save_prompt_async starts the thread
AutoSave ==
    /\ pc = "auto_save"
    /\ IF config.auto_save
       THEN \E o \in AddOutcomes :
               /\ remote' = [remote EXCEPT !.add = o]
               /\ thread' = "running"
               /\ adds' = Append(adds,
                     [messages |-> <<[role |-> "user", content |-> user_prompt]>>,
                      user_id |-> config.user_id])
               /\ pc' = "joining"
       ELSE pc' = "output" /\ UNCHANGED <<remote, thread, adds>>
    /\ UNCHANGED <<hook, stdin, environ, fs, input_data, user_prompt, config,
                   results, messages, searches, stdout, exitCode>>

\* _save returns: the add answered or raised into the except clause
ThreadFinish ==
    /\ thread = "running"
    /\ remote.add # "hangs"
    /\ thread' = "finished"
    /\ UNCHANGED <<hook, stdin, environ, fs, remote, pc, input_data,
                   user_prompt, config, results, messages, searches, adds,
                   stdout, exitCode>>

\* thread.join(timeout=2.0) returns because the thread ended
JoinDone ==
    /\ pc = "joining"
    /\ thread = "finished"
    /\ pc' = "output"
    /\ UNCHANGED <<hook, stdin, environ, fs, remote, input_data, user_prompt,
                   config, results, messages, thread, searches, adds, stdout,
                   exitCode>>

\* thread.join(timeout=2.0) returns because the timeout elapsed
JoinTimesOut ==
    /\ pc = "joining"
    /\ thread = "running"
    /\ pc' = "output"
    /\ UNCHANGED <<hook, stdin, environ, fs, remote, input_data, user_prompt,
                   config, results, messages, thread, searches, adds, stdout,
                   exitCode>>

\* memory_retrieve.main: format and print the result
Output ==
    /\ pc = "output"
    /\ IF ResultsTruthy(results)
       THEN IF format_raises(results) THEN Crash
            ELSE IF format_memories(results) # ""
                 THEN Emit([action |-> "continue", has_context |-> TRUE,
                            context |-> format_memories(results)])
            ELSE Emit(DefaultResult)
       ELSE Emit(DefaultResult)
    /\ UNCHANGED <<hook, stdin, environ, fs, remote, input_data, user_prompt,
                   config, results, messages, thread, searches, adds>>

\* memory_save.main: messages = extract_messages(...)
Extract ==
    /\ pc = "extract"
    /\ IF input_data.kind # "object"
          \/ extract_raises(input_data, config.save_messages)
       THEN Crash /\ UNCHANGED messages
       ELSE /\ messages' = extract_messages(input_data, config.save_messages)
            /\ pc' = IF extract_messages(input_data, config.save_messages)
                        # <<>>
                     THEN "save" ELSE "print"
            /\ UNCHANGED <<stdout, exitCode>>
    /\ UNCHANGED <<hook, stdin, environ, fs, remote, input_data, user_prompt,
                   config, results, thread, searches, adds>>

\* save_memories: client.add is called
SaveCall ==
    /\ pc = "save"
    /\ \E o \in AddOutcomes :
          remote' = [remote EXCEPT !.add = o]
    /\ adds' = Append(adds, [messages |-> messages, user_id |-> config.user_id])
    /\ pc' = "saving"
    /\ UNCHANGED <<hook, stdin, environ, fs, input_data, user_prompt, config,
                   results, messages, thread, searches, stdout, exitCode>>

\* save_memories returns
SaveReturn ==
    /\ pc = "saving"
    /\ remote.add # "hangs"
    /\ IF save_memories(remote.add).raised THEN Crash
       ELSE pc' = "print" /\ UNCHANGED <<stdout, exitCode>>
    /\ UNCHANGED <<hook, stdin, environ, fs, remote, input_data, user_prompt,
                   config, results, messages, thread, searches, adds>>

\* memory_save.main: the final print
PrintDefault ==
    /\ pc = "print"
    /\ Emit(DefaultResult)
    /\ UNCHANGED <<hook, stdin, environ, fs, remote, input_data, user_prompt,
                   config, results, messages, thread, searches, adds>>

\* interpreter shutdown: the thread is not a daemon, so the process ends
\* only once it has ended
ProcessExit ==
    /\ pc = "exiting"
    /\ thread # "running"
    /\ pc' = "exited"
    /\ UNCHANGED <<hook, stdin, environ, fs, remote, input_data, user_prompt,
                   config, results, messages, thread, searches, adds, stdout,
                   exitCode>>

(***************************************************************************)
(* Initial states and specifications.                                      *)
(***************************************************************************)
Env0 == [k \in {} |-> ""]
EnvOf(k, v) == [x \in {k} |-> v]

Fresh ==
    /\ remote = [search |-> NoResponse, add |-> "none"]
    /\ pc = "start"
    /\ input_data = NoDoc
    /\ user_prompt = Absent
    /\ config = NoConfig
    /\ results = EmptyList
    /\ messages = <<>>
    /\ thread = "none"
    /\ searches = <<>>
    /\ adds = <<>>
    /\ stdout = <<>>
    /\ exitCode = -1

RetrieveEnvs ==
    {Env0,
     EnvOf("MEM0_API_KEY", ""),
     EnvOf("MEM0_API_KEY", "k"),
     EnvOf("MEM0_API_KEY", "k") @@ EnvOf("MEM0_AUTO_SAVE", "false"),
     EnvOf("MEM0_API_KEY", "k") @@ EnvOf("MEM0_AUTO_SAVE", "TRUE")
         @@ EnvOf("MEM0_USER_ID", "u1"),
     EnvOf("MEM0_API_KEY", "k") @@ EnvOf("MEM0_TOP_K", "abc"),
     EnvOf("MEM0_API_KEY", "") @@ EnvOf("MEM0_THRESHOLD", "high")}

SaveEnvs ==
    {Env0,
     EnvOf("MEM0_API_KEY", ""),
     EnvOf("MEM0_API_KEY", "k"),
     EnvOf("MEM0_API_KEY", "k") @@ EnvOf("MEM0_SAVE_MESSAGES", "1"),
     EnvOf("MEM0_API_KEY", "k") @@ EnvOf("MEM0_SAVE_MESSAGES", "0"),
     EnvOf("MEM0_API_KEY", "k") @@ EnvOf("MEM0_SAVE_MESSAGES", "abc"),
     EnvOf("MEM0_API_KEY", "") @@ EnvOf("MEM0_SAVE_MESSAGES", "abc")}

SmallFiles ==
    {NoFiles,
     [NoFiles EXCEPT !.cwd = File(<< <<"MEM0_API_KEY", "=", "k2">> >>)],
     [NoFiles EXCEPT !.cwd = File(<< <<"=", "x">> >>)],
     [NoFiles EXCEPT !.roots =
         <<File(<< <<"MEM0_AUTO_SAVE", " ", "=", " ", "false">> >>)>>]}

RetrieveDocs ==
    {NotJson, NonObject}
    \cup {PromptDoc(p, q) :
            p \in {Absent, Null, Str(""), Str("p"), Num("123")},
            q \in {Absent, Str(""), Str("q")}}

UserEntry == Entry(Str("user"), TextC(<<"h", "i">>))
PartsEntry ==
    Entry(Str("assistant"),
          ListC(<<[t |-> "str", s |-> <<"a">>],
                  [t |-> "other", s |-> <<>>],
                  [t |-> "text", s |-> <<"b">>]>>))
NoRoleEntry == Entry(Absent, TextC(<<"x">>))

SaveDocs ==
    {NotJson, NonObject,
     TranscriptDoc(AbsentT, AbsentT),
     TranscriptDoc(OtherT("null"), OtherT("null")),
     TranscriptDoc(OtherT("str"), AbsentT),
     TranscriptDoc(OtherT("dict"), AbsentT),
     TranscriptDoc(ListT(<<UserEntry>>), AbsentT),
     TranscriptDoc(ListT(<<>>), ListT(<<UserEntry, NoRoleEntry>>)),
     TranscriptDoc(ListT(<<UserEntry, PartsEntry>>), AbsentT),
     TranscriptDoc(ListT(<<NoRoleEntry>>), ListT(<<UserEntry>>)),
     TranscriptDoc(ListT(<<NonDictEntry>>), AbsentT),
     TranscriptDoc(ListT(<<Entry(Str("user"),
                                ListC(<<[t |-> "text_bad", s |-> <<>>]>>))>>),
                   AbsentT)}

Init ==
    /\ hook \in {"retrieve", "save"}
    /\ stdin \in IF hook = "retrieve" THEN RetrieveDocs ELSE SaveDocs
    /\ environ \in IF hook = "retrieve" THEN RetrieveEnvs ELSE SaveEnvs
    /\ fs \in SmallFiles
    /\ Fresh

Next ==
    \/ LoadEnv
    \/ ParseInput
    \/ GetPrompt
    \/ GetConfig
    \/ SearchCall
    \/ SearchReturn(SmallResponses)
    \/ AutoSave
    \/ ThreadFinish
    \/ JoinDone
    \/ JoinTimesOut
    \/ Output
    \/ Extract
    \/ SaveCall
    \/ SaveReturn
    \/ PrintDefault
    \/ ProcessExit

Spec == Init /\ [][Next]_vars

\* Every step of the process that can be taken is eventually taken: the
\* interpreter runs the main thread and the save thread, and a remote call
\* returns unless the run's remote behaviour is "hangs".
FairSpec == Init /\ [][Next]_vars /\ WF_vars(Next)

(***************************************************************************)
(* The retrieval hook alone, over every response made of well-formed       *)
(* memory records.                                                         *)
(***************************************************************************)
InitFormat ==
    /\ hook = "retrieve"
    /\ stdin \in {PromptDoc(Str("p"), Absent), PromptDoc(Absent, Str("q"))}
    /\ environ \in {EnvOf("MEM0_API_KEY", "k"),
                    EnvOf("MEM0_API_KEY", "k") @@ EnvOf("MEM0_AUTO_SAVE", "false")}
    /\ fs = NoFiles
    /\ Fresh

NextFormat ==
    \/ LoadEnv
    \/ ParseInput
    \/ GetPrompt
    \/ GetConfig
    \/ SearchCall
    \/ SearchReturn(RichResponses)
    \/ AutoSave
    \/ ThreadFinish
    \/ JoinDone
    \/ JoinTimesOut
    \/ Output
    \/ ProcessExit

SpecFormat == InitFormat /\ [][NextFormat]_vars

(***************************************************************************)
(* The save hook alone, over transcripts of mapping entries and every      *)
(* positive save-message limit up to MaxLimit.                             *)
(***************************************************************************)
ShortEntries ==
    {UserEntry,
     Entry(Str("assistant"), TextC(<<"y", "o">>)),
     NoRoleEntry,
     Entry(Str("user"), TextC(<<>>)),
     Entry(Str("user"), OtherC("num")),
     PartsEntry}

ContentLengths ==
    (0..MaxOver) \cup ((MaxContentLen - MaxOver)..(MaxContentLen + MaxOver))

LongEntries ==
    {Entry(Str(r), TextC(Chars(c, n))) :
        r \in {"user", "assistant"}, c \in {"a", "."}, n \in ContentLengths}

ExtractDocs ==
    {TranscriptDoc(ListT(l), AbsentT) : l \in SeqsUpTo(ShortEntries, MaxTranscript)}
    \cup {TranscriptDoc(AbsentT, ListT(l)) : l \in SeqsUpTo(ShortEntries, 1)}
    \cup {TranscriptDoc(ListT(<<e>>), AbsentT) : e \in LongEntries}

LimitText(n) == CHOOSE t \in DOMAIN IntLiterals : IntLiterals[t] = n

InitExtract ==
    /\ hook = "save"
    /\ stdin \in ExtractDocs
    /\ environ \in {EnvOf("MEM0_API_KEY", "k")
                    @@ EnvOf("MEM0_SAVE_MESSAGES", LimitText(n)) : n \in 1..MaxLimit}
    /\ fs = NoFiles
    /\ Fresh

NextSave ==
    \/ LoadEnv
    \/ ParseInput
    \/ GetConfig
    \/ Extract
    \/ SaveCall
    \/ SaveReturn
    \/ PrintDefault
    \/ ProcessExit

SpecExtract == InitExtract /\ [][NextSave]_vars

(***************************************************************************)
(* load_env_file alone, over process environments and .env files.          *)
(***************************************************************************)
EnvLines ==
    {<<"A", "=", "1">>,
     <<" ", "A", " ", "=", " ", "2", " ">>,
     <<"B", "=", "1", "=", "2">>,
     <<"#", "A", "=", "3">>,
     <<"=", "x">>}

RootFiles ==
    {NoFile,
     File(<< <<"A", "=", "1">> >>),
     File(<< <<"B", "=", "4">>, <<"A", "=", "5">> >>),
     File(<< <<"=", "x">>, <<"A", "=", "6">> >>)}

CwdFiles == {NoFile} \cup {File(l) : l \in SeqsUpTo(EnvLines, MaxLines)}

StartEnvs == {Env0, EnvOf("A", ""), EnvOf("A", "0") @@ EnvOf("B", "0")}

InitEnv ==
    /\ hook \in {"retrieve", "save"}
    /\ stdin = NotJson
    /\ environ \in StartEnvs
    /\ fs \in {[hook_input_ok |-> ok, roots |-> r, cwd |-> c] :
                  ok \in BOOLEAN, r \in SeqsUpTo(RootFiles, MaxRoots),
                  c \in CwdFiles}
    /\ Fresh

NextEnv ==
    \/ LoadEnv
    \/ ParseInput
    \/ ProcessExit

SpecEnv == InitEnv /\ [][NextEnv]_vars

(***************************************************************************)
(* Properties.                                                             *)
(***************************************************************************)
Ended == pc \in {"exiting", "exited"}

\* the .env files load and the numeric settings parse: the claims about
\* stdin, the prompt fields and the remote service are stated for such runs
ConfigurationLoads ==
    /\ ~load_env_file(environ, fs).raised
    /\ ~get_config_retrieve(load_env_file(environ, fs).env).raised
    /\ ~get_config_save(load_env_file(environ, fs).env).raised

\* C1: in both hooks every run, whatever stdin, the field values and the
\* remote service do, ends with exactly one Hook Result on stdout, with
\* action "continue", and exit status 0; never zero or two results.
C1_ExactlyOneResultExitZero ==
    ConfigurationLoads =>
        /\ Len(stdout) <= 1
        /\ pc = "exited" =>
              /\ Len(stdout) = 1
              /\ stdout[1].action = "continue"
              /\ exitCode = 0

\* C2: in both hooks, when the resolved API key is empty or absent, no
\* search and no add (the background save included) is ever started and
\* the hook emits {"action": "continue"} without a context field.
C2_NoKeyNoRemoteDefaultResult ==
    (ConfigurationLoads /\ pc # "start"
     /\ environ_get(environ, "MEM0_API_KEY", "") = "") =>
        /\ searches = <<>>
        /\ adds = <<>>
        /\ thread = "none"
        /\ pc = "exited" => stdout = <<DefaultResult>>

\* C3: in the retrieval hook, when neither prompt nor query is a non-empty
\* string (absent, empty or of another type) no search and no add starts
\* and the default result is emitted; when prompt is empty or absent and
\* query is a non-empty string, query is the prompt.
C3_NoPromptShortCircuit ==
    (hook = "retrieve" /\ input_data.kind = "object") =>
        /\ (~IsNonEmptyString(input_data.prompt)
            /\ ~IsNonEmptyString(input_data.query)) =>
               /\ searches = <<>>
               /\ adds = <<>>
               /\ Ended => stdout = <<DefaultResult>>
        /\ (input_data.prompt \in {Absent, Str("")}
            /\ IsNonEmptyString(input_data.query)
            /\ pc # "get_prompt") => user_prompt = input_data.query

\* the search failed: missing client, raised error, or a response that is
\* neither a mapping with a results field nor a plain sequence
SearchFailed ==
    \/ remote.search.kind \in {"import_error", "raises", "other"}
    \/ remote.search.kind = "dict" /\ remote.search.rt = "absent"

C8_TerminatesWhileSaveRuns == (hook = "retrieve") => <>(pc = "exited")

\* C10: in the retrieval hook with a non-empty prompt and API key, with
\* auto_save exactly one add is started, carrying the prompt as a single
\* user-role message under the configured user id, after the search has
\* returned and before the result is emitted, whatever the search gave;
\* search and save are never in progress together; without auto_save no
\* add is started.
C10_AutoSaveOnceAfterSearch ==
    hook = "retrieve" =>
        /\ Len(adds) <= 1
        /\ ~(pc = "searching" /\ thread = "running")
        /\ adds # <<>> =>
              /\ lower(environ_get(environ, "MEM0_AUTO_SAVE", "true")) = "true"
              /\ Len(searches) = 1
              /\ pc \notin {"search", "searching"}
              /\ adds[1].messages =
                    <<[role |-> "user", content |-> select_prompt(input_data)]>>
              /\ adds[1].user_id =
                    environ_get(environ, "MEM0_USER_ID", "cursor-user")
        /\ (stdout # <<>> /\ Truthy(user_prompt) /\ config.api_key # "") =>
              Len(adds) = IF lower(environ_get(environ, "MEM0_AUTO_SAVE", "true"))
                             = "true" THEN 1 ELSE 0
        /\ (pc \in {"joining", "output"}) =>
              Len(adds) = IF config.auto_save THEN 1 ELSE 0

C10_Witness ==
    /\ hook = "retrieve"
    /\ pc = "exited"
    /\ Len(adds) = 1
    /\ adds[1].user_id = "u1"
    /\ remote.search.kind = "raises"
    /\ Len(stdout) = 1

\* the records the search returned, and those with a non-empty memory
C6_Kept(r) == r.memory # ""
C6_Line(r) ==
    "- " \o (IF Len(r.categories) > 0
             THEN "[" \o JoinComma(r.categories) \o "] " ELSE "") \o r.memory
RECURSIVE C6_Lines(_, _)
C6_Lines(recs, i) ==
    IF i > Len(recs) THEN ""
    ELSE (IF i > 1 THEN "\n" ELSE "") \o C6_Line(recs[i]) \o C6_Lines(recs, i + 1)

\* C6: for every sequence of memory records the search returns, the
\* result carries a context iff some record has a non-empty memory; the
\* context is the header and one bullet line per such record, in search
\* order, prefixed with "[cat1, cat2]" exactly when the record has
\* categories; otherwise the result is the default one, without context.
C6_ContextIffNonEmptyMemory ==
    (hook = "retrieve" /\ Len(searches) = 1 /\ Ended) =>
        LET kept == SelectSeq(remote.search.recs, C6_Kept)
        IN  /\ Len(stdout) = 1
            /\ stdout[1].action = "continue"
            /\ stdout[1].has_context <=> (kept # <<>>)
            /\ kept # <<>> => stdout[1].context = Header \o C6_Lines(kept, 1)
            /\ kept = <<>> => stdout[1] = DefaultResult

C6_Witness ==
    /\ pc = "exited"
    /\ Len(stdout) = 1
    /\ stdout[1].has_context
    /\ Len(remote.search.recs) = 2
    /\ remote.search.recs[1].memory = ""
    /\ remote.search.recs[2].categories = <<>>

\* the transcript the save hook received, when it is a list
C4_Transcript == select_transcript(input_data).l
C4_Limit == int(environ_get(environ, "MEM0_SAVE_MESSAGES", "10"))
C4_Extracted == hook = "save" /\ pc \in {"save", "saving", "print"}

C5_TruncationIdempotent ==
    C4_Extracted =>
        /\ \A i \in 1..Len(messages) :
              /\ truncate(messages[i].content) = messages[i].content
              /\ Len(messages[i].content) <= MaxContentLen + 3
        /\ (Len(C4_Transcript) = 1 /\ C4_Transcript[1].content.t = "str"
            /\ Len(messages) = 1) =>
              LET c == C4_Transcript[1].content.s
                  out == messages[1].content
              IN  /\ Len(c) <= 2000 => out = c
                  /\ Len(c) > 2000 =>
                        /\ Len(out) = 2003
                        /\ \A j \in 1..2000 : out[j] = c[j]
                        /\ <<out[2001], out[2002], out[2003]>> = <<".", ".", ".">>

C5_Witness ==
    /\ C4_Extracted
    /\ Len(C4_Transcript) = 1
    /\ Len(C4_Transcript[1].content.s) = MaxContentLen + 1
    /\ C4_Transcript[1].content.s[1] = "."
    /\ Len(messages) = 1
    /\ Len(messages[1].content) = MaxContentLen + 3

\* the lines load_env_file consults, in search order: the .env of the
\* first workspace root that has one, then the .env of the current directory
C9_SearchOrder(f) ==
    LET withEnv == {i \in 1..Len(f.roots) : f.roots[i].exists}
        first == CHOOSE i \in withEnv : \A j \in withEnv : i <= j
    IN  (IF f.hook_input_ok /\ withEnv # {} THEN f.roots[first].lines ELSE <<>>)
        \o (IF f.cwd.exists THEN f.cwd.lines ELSE <<>>)

C9_Defined(f) ==
    LET a == SelectSeq(C9_SearchOrder(f), IsAssignment)
    IN  {SplitKey(a[i]) : i \in 1..Len(a)}

C9_FirstDefinition(f, k) ==
    LET a == SelectSeq(C9_SearchOrder(f), IsAssignment)
        i == CHOOSE x \in 1..Len(a) :
                /\ SplitKey(a[x]) = k
                /\ \A y \in 1..(x - 1) : SplitKey(a[y]) # k
    IN  SplitValue(a[i])

\* C9: load_env_file never changes a variable already set (an empty value
\* included), and every other key takes its first definition in the search
\* order: declared workspace roots first, of which only the first one with
\* a .env file counts, then the current directory.
C9_FirstDefinitionWins ==
    [][(pc = "start" /\ pc' = "read_stdin") =>
          /\ \A k \in DOMAIN environ : k \in DOMAIN environ' /\ environ'[k] = environ[k]
          /\ \A k \in C9_Defined(fs) \ (DOMAIN environ \cup {""}) :
                k \in DOMAIN environ' /\ environ'[k] = C9_FirstDefinition(fs, k)
          /\ DOMAIN environ' \subseteq DOMAIN environ \cup C9_Defined(fs)]_vars

====
